---- MODULE Spec2Model ----
(*
  Model of charmcraft's analysis engine (charmcraft/linters.py): the checkers
  Language and Framework, the process-wide shared_state mapping, the registry
  CHECKERS and the function analyze, which runs the registry over an unpacked
  charm directory.

  A target directory is an index into the file trees on disk (fs).  A
  path kept in shared_state is a pair (directory, relative path), so a path
  recorded during one analyze call still names the same file in a later call
  on another target.  shared_state is a defaultdict(dict): a missing entry and
  an empty dict cannot be told apart by the code, so every checker name maps
  to a record whose keys may be Absent.
*)
EXTENDS Integers, Sequences, FiniteSets, TLC

VARIABLES
    fs,             \* the file trees on disk: target directory -> its tree
    shared_state,   \* linters.shared_state: checker name -> {"result", "entrypoint", "name"} -> value
    pc,             \* position of analyze: "idle", "loop", "returned", "raised"
    config,         \* config.analysis.ignore of the running call: [attributes, linters]
    basedir,        \* target directory of the running call (index into Tree), 0 when idle
    registry,       \* linters.CHECKERS as seen by the running call (tests patch it)
    idx,            \* position in registry of the next checker class of the for loop
    all_results,    \* analyze's local all_results
    ran,            \* positions of the registry whose run was invoked in the running call
    raised,         \* the exception that left analyze, "none" otherwise
    calls,          \* number of analyze calls started in this process
    fw,             \* result attribute of a Framework instance used directly; "noinstance" if none
    fw_text,        \* outcome of the last read of that instance's text property
    project,        \* the project directory of the pack command: its entries and bundle.yaml
    pack            \* the pack command at work: position, config, arguments, calls made, outcome

vars == <<fs, shared_state, pc, config, basedir, registry, idx, all_results, ran,
          raised, calls, fw, fw_text, project, pack>>

(* ------------------------------------------------------------------ *)
(* Bounds                                                             *)
(* ------------------------------------------------------------------ *)

\* analyze calls made by one process
MaxCalls == 2

\* checker names in the two ignore lists of a configuration, together
MaxIgnored == 1

\* path specifications in the prime list of a bundle part
MaxSpecs == 2

(* ------------------------------------------------------------------ *)
(* Constants of linters.py                                            *)
(* ------------------------------------------------------------------ *)

UNKNOWN == "unknown"

\* the sentinels the tests import from linters; the module under src/ does not define them
IGNORED == "ignored"

FATAL == "fatal"

\* a key that is not in a dict
Absent == "<absent>"

NoPath == [dir |-> 0, rel |-> Absent]

\* Python's None as a value stored in shared_state
None == "<None>"

(* ------------------------------------------------------------------ *)
(* File trees                                                         *)
(* ------------------------------------------------------------------ *)

\* one dispatch line: blank, shell words, or text shlex cannot tokenize
Blank == [text |-> "blank", words |-> <<>>]

Words(w) == [text |-> "words", words |-> w]

Unbalanced == [text |-> "unbalanced", words |-> <<>>]

\* one import found by ast.walk: "import a.b" and "from a.b import c" carry the
\* module name a.b; "from . import c" has module None
Imp(parts) == [none |-> FALSE, module |-> parts]

ImpRelative == [none |-> TRUE, module |-> <<>>]

NoFile == [kind |-> "none", x |-> FALSE, r |-> FALSE, parses |-> FALSE, imports |-> <<>>]

PyFile(x, r, parses, imports) ==
    [kind |-> "file", x |-> x, r |-> r, parses |-> parses, imports |-> imports]

ExampleDispatch == <<Blank, Words(<<"#!/bin/sh">>), Blank, Words(<<"PYTHONPATH=lib:venv", "charm.py">>)>>

\* a charm based on the Operator Framework
OperatorCharm ==
    [ suffix     |-> "",
      dispatch   |-> [kind |-> "text", lines |-> ExampleDispatch],
      files      |-> [p \in {"charm.py"} |->
                        PyFile(TRUE, TRUE, TRUE, <<Imp(<<"logging">>), Imp(<<"ops", "charm">>)>>)],
      venvops    |-> "dir",
      metafile   |-> "yaml",
      metaname   |-> "foobar",
      metasummary |-> TRUE,
      metadescription |-> TRUE,
      wheelhouse |-> [exists |-> FALSE, entries |-> {}] ]

\* a charm based on the Reactive Framework
ReactiveCharm ==
    [ suffix     |-> "",
      dispatch   |-> [kind |-> "nofile", lines |-> <<>>],
      files      |-> [p \in {"reactive/foobar.py"} |->
                        PyFile(FALSE, TRUE, TRUE, <<Imp(<<"stuff">>), Imp(<<"charms", "reactive">>)>>)],
      venvops    |-> "none",
      metafile   |-> "yaml",
      metaname   |-> "foobar",
      metasummary |-> TRUE,
      metadescription |-> TRUE,
      wheelhouse |-> [exists |-> TRUE, entries |-> {"charms.reactive-1.0.1.zip"}] ]

WithEntry(t, f) == [t EXCEPT !.files = [p \in {"charm.py"} |-> f]]

Trees ==
    << OperatorCharm,
       \* 2: python charm without ops: no venv/ops, entry point imports nothing of ops
       [WithEntry(OperatorCharm, PyFile(TRUE, TRUE, TRUE, <<Imp(<<"logging">>)>>))
            EXCEPT !.venvops = "none"],
       ReactiveCharm,
       \* 4: both detections would succeed
       [OperatorCharm EXCEPT
            !.files = [p \in {"charm.py", "reactive/foobar.py"} |->
                          IF p = "charm.py" THEN OperatorCharm.files["charm.py"]
                          ELSE ReactiveCharm.files["reactive/foobar.py"]],
            !.wheelhouse = ReactiveCharm.wheelhouse],
       \* 5: a relative import precedes the import of ops
       WithEntry(OperatorCharm, PyFile(TRUE, TRUE, TRUE, <<ImpRelative, Imp(<<"ops">>)>>)),
       \* 6: the import of ops precedes a relative import
       WithEntry(OperatorCharm, PyFile(TRUE, TRUE, TRUE, <<Imp(<<"ops">>), ImpRelative>>)),
       \* 7: entry point not executable
       WithEntry(OperatorCharm, PyFile(FALSE, TRUE, TRUE, <<Imp(<<"ops">>)>>)),
       \* 8: venv/ops is a file
       [OperatorCharm EXCEPT !.venvops = "file"],
       \* 9: entry point is not Python
       WithEntry(OperatorCharm, PyFile(TRUE, TRUE, FALSE, <<>>)),
       \* 10: ops only as a non-root component
       WithEntry(OperatorCharm, PyFile(TRUE, TRUE, TRUE,
                    <<Imp(<<"whatever", "ops">>), Imp(<<"stuff", "ops">>)>>)),
       \* 11: a later dispatch line overrides the python one
       [OperatorCharm EXCEPT !.dispatch.lines =
            <<Words(<<"charm.py">>), Words(<<"exec", "charm.sh">>), Blank>>],
       \* 12: dispatch is not text
       [OperatorCharm EXCEPT !.dispatch = [kind |-> "undecodable", lines |-> <<>>]],
       \* 13: dispatch with an unbalanced quote
       [OperatorCharm EXCEPT !.dispatch.lines = <<Words(<<"#!/bin/sh">>), Unbalanced>>],
       \* 14: whitespace-only dispatch in a directory named like a Python file
       [OperatorCharm EXCEPT !.dispatch.lines = <<Blank, Blank>>, !.suffix = ".py"],
       \* 15: reactive charm whose file first imports the bare package charms
       [ReactiveCharm EXCEPT !.files = [p \in {"reactive/foobar.py"} |->
            PyFile(FALSE, TRUE, TRUE, <<Imp(<<"charms">>), Imp(<<"charms", "reactive">>)>>)]],
       \* 16: reactive layout without metadata.yaml
       [ReactiveCharm EXCEPT !.metafile = "missing", !.metaname = Absent,
                             !.metasummary = FALSE, !.metadescription = FALSE],
       \* 17: reactive charm whose metadata.yaml has name and summary but no description
       [ReactiveCharm EXCEPT !.metadescription = FALSE],
       \* 18: metadata.yaml is not valid YAML
       [ReactiveCharm EXCEPT !.metafile = "corrupt", !.metaname = Absent,
                             !.metasummary = FALSE, !.metadescription = FALSE],
       \* 19: metadata.yaml has summary and description but no name
       [OperatorCharm EXCEPT !.metaname = Absent]
    >>

\* the target directories that exist
Dirs == DOMAIN fs

\* the tree of target directory d as it is on disk now
Tree(d) == fs[d]

(* ------------------------------------------------------------------ *)
(* Filesystem primitives                                              *)
(* ------------------------------------------------------------------ *)

\* basedir / rel ; joining the empty string gives basedir itself
Join(d, rel) == [dir |-> d, rel |-> rel]

\* the file a path names: the target directory itself, one of its files, or nothing
FileAt(p) ==
    IF p.dir \notin Dirs THEN NoFile
    ELSE IF p.rel = "" THEN [kind |-> "dir", x |-> TRUE, r |-> TRUE, parses |-> FALSE, imports |-> <<>>]
    ELSE IF p.rel \in DOMAIN Tree(p.dir).files THEN Tree(p.dir).files[p.rel]
    ELSE NoFile

\* pathlib's suffix of the last path component
Suffix(p) ==
    IF p.dir \notin Dirs THEN ""
    ELSE IF p.rel = "" THEN Tree(p.dir).suffix
    ELSE IF p.rel \in {"charm.py", "reactive/foobar.py"} THEN ".py"
    ELSE IF p.rel = "charm.sh" THEN ".sh"
    ELSE ""

\* os.access(path, os.X_OK) and os.access(path, os.R_OK)
AccessX(p) == FileAt(p).kind # "none" /\ FileAt(p).x

AccessR(p) == FileAt(p).kind # "none" /\ FileAt(p).r

\* str.startswith("charms.reactive-") on the names used in wheelhouse listings
StartsWithReactive(n) == n \in {"charms.reactive-1.0.1.zip"}

(* ------------------------------------------------------------------ *)
(* shared_state                                                       *)
(* ------------------------------------------------------------------ *)

CheckerNames == {"language", "framework", "metadata", "name1", "name2", "name3", "name4"}

EmptyEntry == [result |-> Absent, entrypoint |-> NoPath, name |-> Absent]

\* defaultdict(dict) right after import
EmptyState == [n \in CheckerNames |-> EmptyEntry]

\* a checker's run: the value it returns or the exception it raises, and shared_state after it
Returned(v, ss) == [exc |-> "none", value |-> v, state |-> ss]

Raised(e, ss) == [exc |-> e, value |-> Absent, state |-> ss]

(* ------------------------------------------------------------------ *)
(* Language                                                           *)
(* ------------------------------------------------------------------ *)

\* index of the last line with non-blank text, 0 if there is none
RECURSIVE LastUseful(_, _)
LastUseful(lines, i) ==
    IF i = 0 THEN 0
    ELSE IF lines[i].text # "blank" THEN i
    ELSE LastUseful(lines, i - 1)

\* LanguageRun, had it not caught the errors of opening and decoding dispatch
LanguageRunNoExcept(ss, d) ==
    LET dispatch == Tree(d).dispatch
        last     == LastUseful(dispatch.lines, Len(dispatch.lines))
    IN  IF dispatch.kind = "nofile" THEN Raised("FileNotFoundError", ss)
        ELSE IF dispatch.kind # "text" THEN Raised("UnicodeDecodeError", ss)
        ELSE IF last # 0 /\ dispatch.lines[last].text = "unbalanced" THEN Raised("ValueError", ss)
        ELSE LET words          == IF last = 0 THEN <<>> ELSE dispatch.lines[last].words
                 entrypoint_str == IF last = 0 THEN "" ELSE words[Len(words)]
                 entrypoint     == Join(d, entrypoint_str)
             IN  IF Suffix(entrypoint) = ".py" /\ AccessX(entrypoint)
                 THEN Returned("python", [ss EXCEPT !["language"].entrypoint = entrypoint])
                 ELSE Returned(UNKNOWN, ss)

\* LanguageRun, had it stored the entry point before testing it
LanguageRunStoresFirst(ss, d) ==
    LET dispatch == Tree(d).dispatch
        last     == LastUseful(dispatch.lines, Len(dispatch.lines))
    IN  IF dispatch.kind # "text" THEN Returned(UNKNOWN, ss)
        ELSE IF last # 0 /\ dispatch.lines[last].text = "unbalanced" THEN Raised("ValueError", ss)
        ELSE LET words          == IF last = 0 THEN <<>> ELSE dispatch.lines[last].words
                 entrypoint_str == IF last = 0 THEN "" ELSE words[Len(words)]
                 entrypoint     == Join(d, entrypoint_str)
                 stored         == [ss EXCEPT !["language"].entrypoint = entrypoint]
             IN  IF Suffix(entrypoint) = ".py" /\ AccessX(entrypoint)
                 THEN Returned("python", stored)
                 ELSE Returned(UNKNOWN, stored)

\* LanguageRun, had it answered python without recording the entry point
LanguageRunForgetsEntrypoint(ss, d) ==
    LET dispatch == Tree(d).dispatch
        last     == LastUseful(dispatch.lines, Len(dispatch.lines))
    IN  IF dispatch.kind # "text" THEN Returned(UNKNOWN, ss)
        ELSE IF last # 0 /\ dispatch.lines[last].text = "unbalanced" THEN Raised("ValueError", ss)
        ELSE LET words          == IF last = 0 THEN <<>> ELSE dispatch.lines[last].words
                 entrypoint_str == IF last = 0 THEN "" ELSE words[Len(words)]
                 entrypoint     == Join(d, entrypoint_str)
             IN  IF Suffix(entrypoint) = ".py" /\ AccessX(entrypoint)
                 THEN Returned("python", ss)
                 ELSE Returned(UNKNOWN, ss)

\* Language.run: the entry point named by dispatch is an executable .py file
LanguageRun(ss, d) ==
    LET dispatch == Tree(d).dispatch
        last     == LastUseful(dispatch.lines, Len(dispatch.lines))
    IN  IF dispatch.kind # "text" THEN Returned(UNKNOWN, ss)
        ELSE IF last # 0 /\ dispatch.lines[last].text = "unbalanced" THEN Raised("ValueError", ss)
        ELSE LET words          == IF last = 0 THEN <<>> ELSE dispatch.lines[last].words
                 entrypoint_str == IF last = 0 THEN "" ELSE words[Len(words)]
                 entrypoint     == Join(d, entrypoint_str)
             IN  IF Suffix(entrypoint) = ".py" /\ AccessX(entrypoint)
                 THEN Returned("python", [ss EXCEPT !["language"].entrypoint = entrypoint])
                 ELSE Returned(UNKNOWN, ss)

(* ------------------------------------------------------------------ *)
(* Framework                                                          *)
(* ------------------------------------------------------------------ *)

\* Framework.result_texts
ResultTexts(result) ==
    CASE result = "operator" -> "The charm is based on the Operator Framework."
      [] result = "reactive" -> "The charm is based on the Reactive Framework."
      [] result = UNKNOWN    -> "The charm is not based on any known Framework."

\* FrameworkTextOf, had it fallen back to a default text before run
FrameworkTextDefault(result) ==
    IF result = Absent THEN ResultTexts(UNKNOWN) ELSE ResultTexts(result)

\* the text property of an instance whose result attribute is result (Absent models None)
FrameworkTextOf(result) ==
    IF result = Absent THEN "RuntimeError" ELSE ResultTexts(result)

\* what iterating _get_imports(filepath) starts with: the imports in ast.walk order,
\* or the exception raised before the first one
GetImports(p) ==
    IF ~AccessR(p) THEN [exc |-> "none", imports |-> <<>>]
    ELSE IF FileAt(p).kind = "dir" THEN [exc |-> "IsADirectoryError", imports |-> <<>>]
    ELSE IF ~FileAt(p).parses THEN [exc |-> "none", imports |-> <<>>]
    ELSE [exc |-> "none", imports |-> FileAt(p).imports]

\* the loop of _check_operator over the generator, from import i on
RECURSIVE ScanOps(_, _)
ScanOps(imports, i) ==
    IF i > Len(imports) THEN "False"
    ELSE IF imports[i].none THEN "AttributeError"
    ELSE IF imports[i].module[1] = "ops" THEN "True"
    ELSE ScanOps(imports, i + 1)

\* the loop of _check_reactive over the generator, from import i on
RECURSIVE ScanReactive(_, _)
ScanReactive(imports, i) ==
    IF i > Len(imports) THEN "False"
    ELSE IF imports[i].none THEN "AttributeError"
    ELSE IF imports[i].module[1] = "charms" /\ Len(imports[i].module) < 2 THEN "IndexError"
    ELSE IF imports[i].module[1] = "charms" /\ imports[i].module[2] = "reactive" THEN "True"
    ELSE ScanReactive(imports, i + 1)

\* "True", "False" or the name of the exception raised
CheckOperator(ss, d) ==
    LET language_info == ss["language"]
    IN  IF language_info.result = Absent THEN "KeyError"
        ELSE IF language_info.result # "python" THEN "False"
        ELSE IF Tree(d).venvops # "dir" THEN "False"
        ELSE IF language_info.entrypoint = NoPath THEN "KeyError"
        ELSE LET got == GetImports(language_info.entrypoint)
             IN  IF got.exc # "none" THEN got.exc ELSE ScanOps(got.imports, 1)

\* charmcraft.metadata.parse_metadata_yaml(basedir).name: the name, or Absent when it raises
ParseMetadataName(d) == Tree(d).metaname

\* the relative path "reactive/<name>.py"
ReactiveFile(name) == IF name = "foobar" THEN "reactive/foobar.py" ELSE "reactive/<other>.py"

CheckReactive(ss, d) ==
    LET entrypoint_name == ParseMetadataName(d)
        wheelhouse      == Tree(d).wheelhouse
    IN  IF entrypoint_name = Absent THEN "False"
        ELSE IF ~wheelhouse.exists THEN "False"
        ELSE IF ~(\E f \in wheelhouse.entries : StartsWithReactive(f)) THEN "False"
        ELSE LET got == GetImports(Join(d, ReactiveFile(entrypoint_name)))
             IN  IF got.exc # "none" THEN got.exc ELSE ScanReactive(got.imports, 1)

\* FrameworkRun, had it tried reactive detection first
FrameworkRunReactiveFirst(ss, d) ==
    LET op == CheckOperator(ss, d)
        re == CheckReactive(ss, d)
    IN  IF re = "True" THEN Returned("reactive", ss)
        ELSE IF re # "False" THEN Raised(re, ss)
        ELSE IF op = "True" THEN Returned("operator", ss)
        ELSE IF op # "False" THEN Raised(op, ss)
        ELSE Returned(UNKNOWN, ss)

\* Framework.run: the caller of the two detections
FrameworkRun(ss, d) ==
    LET op == CheckOperator(ss, d)
        re == CheckReactive(ss, d)
    IN  IF op = "True" THEN Returned("operator", ss)
        ELSE IF op # "False" THEN Raised(op, ss)
        ELSE IF re = "True" THEN Returned("reactive", ss)
        ELSE IF re # "False" THEN Raised(re, ss)
        ELSE Returned(UNKNOWN, ss)

(* ------------------------------------------------------------------ *)
(* JujuMetadata (the metadata checker the tests import; not in this   *)
(* version of linters.py)                                             *)
(* ------------------------------------------------------------------ *)

\* the name field of metadata.yaml if the file parses and the field is a string, else None
MetadataNameOf(d) ==
    IF Tree(d).metafile = "yaml" /\ Tree(d).metaname # Absent THEN Tree(d).metaname ELSE None

\* JujuMetadataRun, had it recorded the name only when it finds one
JujuMetadataRunKeepingName(ss, d) ==
    LET name  == MetadataNameOf(d)
        valid == /\ name # None
                 /\ Tree(d).metasummary
                 /\ Tree(d).metadescription
    IN  Returned(IF valid THEN "ok" ELSE "errors",
                 IF name # None THEN [ss EXCEPT !["metadata"].name = name] ELSE ss)

\* JujuMetadataRun, had it not required the description
JujuMetadataRunNoDescription(ss, d) ==
    LET name  == MetadataNameOf(d)
        valid == /\ name # None
                 /\ Tree(d).metasummary
    IN  Returned(IF valid THEN "ok" ELSE "errors", [ss EXCEPT !["metadata"].name = name])

\* JujuMetadata.run: validate metadata.yaml and record its name for Framework
JujuMetadataRun(ss, d) ==
    LET name  == MetadataNameOf(d)
        valid == /\ name # None
                 /\ Tree(d).metasummary
                 /\ Tree(d).metadescription
    IN  Returned(IF valid THEN "ok" ELSE "errors", [ss EXCEPT !["metadata"].name = name])

(* ------------------------------------------------------------------ *)
(* Checker classes and the registry                                   *)
(* ------------------------------------------------------------------ *)

\* the checkers of linters.py and the fake ones the tests of analyze build:
\* an attribute checker and an error linter whose run raises, a warning linter whose run
\* returns, and a checker of a category that CheckType does not have, whose run returns
FakeClasses == {"FakeAttribute", "FakeWarning", "FakeError", "FakeOther"}

CheckerClasses == {"Language", "Framework", "JujuMetadata"} \cup FakeClasses

\* NameOf, had Framework been given the name of Language
NameOfClash(c) ==
    CASE c = "Language"      -> "language"
      [] c = "Framework"     -> "language"
      [] c = "FakeAttribute" -> "name1"
      [] c = "FakeWarning"   -> "name2"
      [] c = "FakeError"     -> "name3"
      [] c = "FakeOther"     -> "name4"
      [] c = "JujuMetadata"  -> "metadata"

\* the name attribute of a checker class
NameOf(c) ==
    CASE c = "Language"      -> "language"
      [] c = "Framework"     -> "framework"
      [] c = "FakeAttribute" -> "name1"
      [] c = "FakeWarning"   -> "name2"
      [] c = "FakeError"     -> "name3"
      [] c = "FakeOther"     -> "name4"
      [] c = "JujuMetadata"  -> "metadata"

CheckTypeOf(c) ==
    CASE c \in {"Language", "Framework", "FakeAttribute", "JujuMetadata"} -> "attribute"
      [] c = "FakeWarning" -> "warning"
      [] c = "FakeError"   -> "error"
      [] c = "FakeOther"   -> "type1"

UrlOf(c) ==
    CASE c = "Language"  -> "https://juju.is/docs/sdk/charmcraft-analyze#heading--language"
      [] c = "Framework" -> "https://juju.is/docs/sdk/charmcraft-analyze#heading--framework"
      [] OTHER           -> "url"

\* the registry of linters.py
CHECKERS == <<"Language", "Framework">>

\* the registries analyze runs over: CHECKERS, alone or patched by a test with a fake
\* checker after it, before it or between its two checkers
Registries ==
    { CHECKERS,
      CHECKERS \o <<"FakeWarning">>,
      <<"FakeError">> \o CHECKERS,
      <<"Language", "FakeAttribute", "Framework">>,
      CHECKERS \o <<"FakeOther">> }

\* the registries of the tests that have the metadata checker in CHECKERS
MetadataRegistries ==
    { <<"Language", "JujuMetadata", "Framework">>,
      <<"JujuMetadata", "Framework">> }

RegistryNames(reg) == {NameOf(reg[i]) : i \in 1..Len(reg)}

\* config.analysis.ignore: names of the registry in the two ignore lists
Configs(reg) ==
    {[attributes |-> a, linters |-> l] :
        <<a, l>> \in {al \in (SUBSET RegistryNames(reg)) \X (SUBSET RegistryNames(reg)) :
                         Cardinality(al[1]) + Cardinality(al[2]) <= MaxIgnored}}

\* IsIgnored, had it looked for the name in both ignore lists
IsIgnoredAnyBucket(cfg, c) ==
    \/ CheckTypeOf(c) = "attribute" /\ NameOf(c) \in cfg.attributes \cup cfg.linters
    \/ CheckTypeOf(c) \in {"warning", "error"} /\ NameOf(c) \in cfg.attributes \cup cfg.linters

\* IsIgnored, had it taken every checker that is not an attribute for a linter
IsIgnoredAnyLinter(cfg, c) ==
    \/ CheckTypeOf(c) = "attribute" /\ NameOf(c) \in cfg.attributes
    \/ CheckTypeOf(c) # "attribute" /\ NameOf(c) \in cfg.linters

\* the two tests at the top of analyze's loop
IsIgnored(cfg, c) ==
    \/ CheckTypeOf(c) = "attribute" /\ NameOf(c) \in cfg.attributes
    \/ CheckTypeOf(c) \in {"warning", "error"} /\ NameOf(c) \in cfg.linters

\* checker_class().run(basedir)
RunOf(c, ss, d) ==
    CASE c = "Language"      -> LanguageRun(ss, d)
      [] c = "Framework"     -> FrameworkRun(ss, d)
      [] c = "FakeAttribute" -> Raised("ValueError", ss)
      [] c = "FakeWarning"   -> Returned("result", ss)
      [] c = "FakeError"     -> Raised("ValueError", ss)
      [] c = "FakeOther"     -> Returned("result1", ss)
      [] c = "JujuMetadata"  -> JujuMetadataRun(ss, d)

\* checker.text read after run returned value
TextOf(c, value) ==
    CASE c = "Language"  -> "The charm is written with Python."
      [] c = "Framework" -> FrameworkTextOf(value)
      [] OTHER           -> "text"

\* CheckResult, had the text been read before the run set the result
CheckResultTextBeforeRun(c, value) ==
    [name |-> NameOf(c), result |-> value, url |-> UrlOf(c),
     check_type |-> CheckTypeOf(c), text |-> TextOf(c, UNKNOWN)]

\* the CheckResult analyze builds from the checker and the value its run returned
CheckResult(c, value) ==
    [name |-> NameOf(c), result |-> value, url |-> UrlOf(c),
     check_type |-> CheckTypeOf(c), text |-> TextOf(c, value)]

(* ------------------------------------------------------------------ *)
(* analyze                                                            *)
(* ------------------------------------------------------------------ *)

NoConfig == [attributes |-> {}, linters |-> {}]

\* what a call of analyze entered with shared_state ss gives its caller, from
\* registry position i on: the list returned, or the exception that leaves it
RECURSIVE AnalyzeFrom(_, _, _, _, _, _)
AnalyzeFrom(ss, cfg, d, reg, i, results) ==
    IF i > Len(reg) THEN [raised |-> "none", results |-> results]
    ELSE IF IsIgnored(cfg, reg[i]) THEN AnalyzeFrom(ss, cfg, d, reg, i + 1, results)
    ELSE LET out == RunOf(reg[i], ss, d)
         IN  IF out.exc # "none" THEN [raised |-> out.exc, results |-> <<>>]
             ELSE AnalyzeFrom([out.state EXCEPT ![NameOf(reg[i])].result = out.value],
                              cfg, d, reg, i + 1,
                              Append(results, CheckResult(reg[i], out.value)))
(* ------------------------------------------------------------------ *)
(* Bundle packing: commands/pack.py                                   *)
(* ------------------------------------------------------------------ *)

\* pack.MANDATORY_FILES: the minimum set of files in a bundle
MANDATORY_FILES == {"bundle.yaml", "manifest.yaml", "README.md"}

\* the name that bundle.yaml gives the bundle in the projects explored
BundleName == "thebundle"

\* bundle_name + ".zip"
ZipName == "thebundle.zip"

\* the names an explored project directory may hold
ProjectNames == MANDATORY_FILES \cup {"docs", "foo.txt", ZipName}

\* the path specifications a bundle part's prime list is made of
PrimeSpecs == {"*", "*.txt", "README.md"}

\* a directory with nothing in it
NoProject == [entries |-> [n \in ProjectNames |-> "none"], bundle_yaml |-> "nocontent"]

\* the project directories explored: each name is missing, a regular file or a
\* directory; bundle_yaml tells what a bundle.yaml that is a file holds
Projects ==
    {p \in [entries : [ProjectNames -> {"none", "file", "dir"}],
            bundle_yaml : {"nocontent", "corrupted", "noname", "emptyname", "named"}] :
        /\ p.entries["README.md"] # "dir"
        /\ p.entries["manifest.yaml"] # "dir"
        /\ p.entries["foo.txt"] # "dir"
        /\ p.entries["docs"] # "file"
        /\ (p.bundle_yaml = "nocontent") <=> (p.entries["bundle.yaml"] # "file")}

\* sequences over S of length at most n
RECURSIVE SeqsUpTo(_, _)
SeqsUpTo(S, n) ==
    IF n = 0 THEN {<<>>}
    ELSE LET shorter == SeqsUpTo(S, n - 1)
         IN  shorter \cup {Append(s, x) : s \in {t \in shorter : Len(t) = n - 1}, x \in S}

\* config.parts as the command reads it: whether there is a bundle part, and its prime
PartsConfigs ==
    {[has_bundle |-> FALSE, prime |-> <<>>]}
        \cup {[has_bundle |-> TRUE, prime |-> s] : s \in SeqsUpTo(PrimeSpecs, MaxSpecs)}

\* the Config objects explored: without a charmcraft.yaml there is no type
PackConfigs ==
    {c \in [type : {"charm", "bundle", None}, config_provided : BOOLEAN, parts : PartsConfigs] :
        c.config_provided <=> (c.type # None)}

\* parsed_args of the pack command: each option is None unless given
ParsedArgs == [entrypoint : {None, "charm.py"}, requirement : {None, "reqs.txt"}]

NoArgs == [entrypoint |-> None, requirement |-> None]

\* Path.exists
Exists(proj, n) == proj.entries[n] # "none"

\* Path.is_file
IsFile(proj, n) == proj.entries[n] = "file"

\* whether a name of the project directory matches a path specification
Matches(spec, n) ==
    CASE spec = "*"     -> TRUE
      [] spec = "*.txt" -> n = "foo.txt"
      [] OTHER          -> n = spec

\* dirpath.glob(spec): the entries of the directory, of any kind, that match
Glob(proj, spec) == {n \in ProjectNames : Exists(proj, n) /\ Matches(spec, n)}

\* position of a name in the order of pathlib paths (upper case before lower case)
PathRank(n) ==
    CASE n = "README.md"     -> 1
      [] n = "bundle.yaml"   -> 2
      [] n = "docs"          -> 3
      [] n = "foo.txt"       -> 4
      [] n = "manifest.yaml" -> 5
      [] n = ZipName         -> 6

\* sorted(...) of a collection of paths
RECURSIVE Sorted(_)
Sorted(S) ==
    IF S = {} THEN <<>>
    ELSE LET least == CHOOSE x \in S : \A y \in S : PathRank(x) <= PathRank(y)
         IN  <<least>> \o Sorted(S \ {least})

\* the elements of a list
Elements(s) == {s[k] : k \in 1..Len(s)}

\* the loop over bundle.prime of get_paths_to_include, from the k-th spec on
RECURSIVE IncludePrime(_, _, _, _)
IncludePrime(proj, prime, k, allpaths) ==
    IF k > Len(prime) THEN allpaths
    ELSE LET fpaths == Sorted({n \in Glob(proj, prime[k]) : IsFile(proj, n)})
         IN  IncludePrime(proj, prime, k + 1, allpaths \cup Elements(fpaths))

\* GetPathsToInclude, had it gathered the paths in a list and not in a set
GetPathsToIncludeAsList(cfg, proj) ==
    LET missing == {n \in MANDATORY_FILES : ~Exists(proj, n)}
    IN  IF missing # {}
        THEN [exc |-> "CommandError", missing |-> missing, paths |-> <<>>]
        ELSE LET extra == IF cfg.parts.has_bundle
                          THEN IncludePrime(proj, cfg.parts.prime, 1, {})
                          ELSE {}
             IN  [exc |-> "none", missing |-> {},
                  paths |-> Sorted(MANDATORY_FILES) \o Sorted(extra)]

\* get_paths_to_include(config): the list it returns, or CommandError with the
\* mandatory names one of which its message gives (a set is looped over in no fixed order)
GetPathsToInclude(cfg, proj) ==
    LET missing == {n \in MANDATORY_FILES : ~Exists(proj, n)}
    IN  IF missing # {}
        THEN [exc |-> "CommandError", missing |-> missing, paths |-> <<>>]
        ELSE LET allpaths == IF cfg.parts.has_bundle
                             THEN IncludePrime(proj, cfg.parts.prime, 1, MANDATORY_FILES)
                             ELSE MANDATORY_FILES
             IN  [exc |-> "none", missing |-> {}, paths |-> Sorted(allpaths)]

\* utils.load_yaml(dirpath / n): None for a missing file, a directory or corrupted
\* content, otherwise the mapping read
LoadYaml(proj, n) ==
    IF ~IsFile(proj, n) \/ proj.bundle_yaml = "corrupted"
    THEN [none |-> TRUE, name |-> Absent]
    ELSE [none |-> FALSE,
          name |-> CASE proj.bundle_yaml = "noname"    -> Absent
                     [] proj.bundle_yaml = "emptyname" -> ""
                     [] proj.bundle_yaml = "named"     -> BundleName]

\* manifest.create_manifest(dirpath, started_at, bases): writes manifest.yaml
CreateManifestFile(proj) == [proj EXCEPT !.entries["manifest.yaml"] = "file"]

\* Path.unlink of the manifest
Unlink(proj) == [proj EXCEPT !.entries["manifest.yaml"] = "none"]

\* build_zip(zippath, basedir, fpaths): the zip file is opened for writing, which a
\* directory of that name prevents, and every path is written to it
BuildZip(proj, fpaths) ==
    IF proj.entries[ZipName] = "dir"
    THEN [exc |-> "IsADirectoryError", project |-> proj, zipped |-> <<>>]
    ELSE [exc |-> "none", project |-> [proj EXCEPT !.entries[ZipName] = "file"],
          zipped |-> fpaths]

\* the command before it is run on anything
NoCommand ==
    [pc          |-> "nocommand",
     config      |-> [type |-> None, config_provided |-> FALSE,
                      parts |-> [has_bundle |-> FALSE, prime |-> <<>>]],
     parsed_args |-> NoArgs,
     called      |-> <<>>,
     paths       |-> <<>>,
     zipped      |-> <<>>,
     pending     |-> "none",
     raised      |-> "none",
     logged      |-> <<>>,
     started     |-> NoProject]


Init ==
    /\ fs = Trees
    /\ shared_state = EmptyState
    /\ pc = "idle"
    /\ config = NoConfig
    /\ basedir = 0
    /\ registry = <<>>
    /\ idx = 0
    /\ all_results = <<>>
    /\ ran = {}
    /\ raised = "none"
    /\ calls = 0
    /\ fw = "noinstance"
    /\ fw_text = "notread"
    /\ project = NoProject
    /\ pack = NoCommand

\* analyze(config, basedir) is called: all_results = [] and the loop begins
Analyze(cfg, d, reg) ==
    /\ pc = "idle"
    /\ fw = "noinstance"
    /\ calls < MaxCalls
    /\ pc' = "loop"
    /\ config' = cfg
    /\ basedir' = d
    /\ registry' = reg
    /\ idx' = 1
    /\ all_results' = <<>>
    /\ ran' = {}
    /\ raised' = "none"
    /\ calls' = calls + 1
    /\ UNCHANGED <<fs, shared_state, fw, fw_text,
                 project, pack>>

\* a caller (the pack command, a test) calls analyze with some configuration, target and registry
AnalyzeCall ==
    /\ pc = "idle"
    /\ \E reg \in Registries : \E cfg \in Configs(reg) : \E d \in Dirs : Analyze(cfg, d, reg)

\* SkipIgnored, had it recorded the skip in shared_state
SkipIgnoredRecording ==
    /\ pc = "loop"
    /\ idx <= Len(registry)
    /\ IsIgnored(config, registry[idx])
    /\ shared_state' = [shared_state EXCEPT ![NameOf(registry[idx])].result = IGNORED]
    /\ idx' = idx + 1
    /\ UNCHANGED <<fs, pc, config, basedir, registry, all_results, ran,
                   raised, calls, fw, fw_text,
                 project, pack>>

\* an iteration that ends at one of the two continue statements
SkipIgnored ==
    /\ pc = "loop"
    /\ idx <= Len(registry)
    /\ IsIgnored(config, registry[idx])
    /\ idx' = idx + 1
    /\ UNCHANGED <<fs, shared_state, pc, config, basedir, registry, all_results, ran,
                   raised, calls, fw, fw_text,
                 project, pack>>

\* RunChecker, had analyze not written the result to shared_state
RunCheckerNoRecord ==
    /\ pc = "loop"
    /\ idx <= Len(registry)
    /\ ~IsIgnored(config, registry[idx])
    /\ LET c   == registry[idx]
           out == RunOf(c, shared_state, basedir)
       IN  /\ out.exc = "none"
           /\ shared_state' = out.state
           /\ all_results' = Append(all_results, CheckResult(c, out.value))
    /\ ran' = ran \cup {idx}
    /\ idx' = idx + 1
    /\ UNCHANGED <<fs, pc, config, basedir, registry, raised, calls, fw, fw_text,
                 project, pack>>

\* RunChecker, had the run opened dispatch for writing and left it empty
RunCheckerTruncating ==
    /\ pc = "loop"
    /\ idx <= Len(registry)
    /\ ~IsIgnored(config, registry[idx])
    /\ LET c   == registry[idx]
           out == RunOf(c, shared_state, basedir)
       IN  /\ out.exc = "none"
           /\ shared_state' = [out.state EXCEPT ![NameOf(c)].result = out.value]
           /\ all_results' = Append(all_results, CheckResult(c, out.value))
    /\ fs' = [fs EXCEPT ![basedir].dispatch = [kind |-> "text", lines |-> <<>>]]
    /\ ran' = ran \cup {idx}
    /\ idx' = idx + 1
    /\ UNCHANGED <<pc, config, basedir, registry, raised, calls, fw, fw_text,
                 project, pack>>

\* an iteration whose checker runs to a return value
RunChecker ==
    /\ pc = "loop"
    /\ idx <= Len(registry)
    /\ ~IsIgnored(config, registry[idx])
    /\ LET c   == registry[idx]
           out == RunOf(c, shared_state, basedir)
       IN  /\ out.exc = "none"
           /\ shared_state' = [out.state EXCEPT ![NameOf(c)].result = out.value]
           /\ all_results' = Append(all_results, CheckResult(c, out.value))
    /\ ran' = ran \cup {idx}
    /\ idx' = idx + 1
    /\ UNCHANGED <<fs, pc, config, basedir, registry, raised, calls, fw, fw_text,
                 project, pack>>

\* an iteration whose checker raises: nothing in analyze catches it
CrashChecker ==
    /\ pc = "loop"
    /\ idx <= Len(registry)
    /\ ~IsIgnored(config, registry[idx])
    /\ LET c   == registry[idx]
           out == RunOf(c, shared_state, basedir)
       IN  /\ out.exc # "none"
           /\ shared_state' = out.state
           /\ raised' = out.exc
    /\ ran' = ran \cup {idx}
    /\ pc' = "raised"
    /\ UNCHANGED <<fs, config, basedir, registry, idx, all_results, calls, fw, fw_text,
                 project, pack>>

\* the loop is over: return all_results
Return ==
    /\ pc = "loop"
    /\ idx > Len(registry)
    /\ pc' = "returned"
    /\ UNCHANGED <<fs, shared_state, config, basedir, registry, idx, all_results, ran,
                   raised, calls, fw, fw_text,
                 project, pack>>

\* the caller has the list or the exception; the frame of analyze is gone
Finish ==
    /\ pc \in {"returned", "raised"}
    /\ pc' = "idle"
    /\ config' = NoConfig
    /\ basedir' = 0
    /\ registry' = <<>>
    /\ idx' = 0
    /\ all_results' = <<>>
    /\ ran' = {}
    /\ raised' = "none"
    /\ UNCHANGED <<fs, shared_state, calls, fw, fw_text,
                 project, pack>>

(* ------------------------------------------------------------------ *)
(* A Framework instance used directly                                 *)
(* ------------------------------------------------------------------ *)

\* Framework(): __init__ sets result to None
FrameworkNew ==
    /\ pc = "idle"
    /\ fw = "noinstance"
    /\ fw' = Absent
    /\ fw_text' = "notread"
    /\ UNCHANGED <<fs, shared_state, pc, config, basedir, registry, idx, all_results, ran,
                   raised, calls,
                 project, pack>>

\* checker.run(d) on that instance: self.result is set when run returns
FrameworkRunDirect(d) ==
    /\ pc = "idle"
    /\ fw # "noinstance"
    /\ LET out == FrameworkRun(shared_state, d)
       IN  fw' = IF out.exc = "none" THEN out.value ELSE fw
    /\ UNCHANGED <<fs, shared_state, pc, config, basedir, registry, idx, all_results, ran,
                   raised, calls, fw_text,
                 project, pack>>

FrameworkRunCall ==
    /\ pc = "idle"
    /\ \E d \in Dirs : FrameworkRunDirect(d)

\* checker.text on that instance
FrameworkText ==
    /\ pc = "idle"
    /\ fw # "noinstance"
    /\ fw_text' = FrameworkTextOf(fw)
    /\ UNCHANGED <<fs, shared_state, pc, config, basedir, registry, idx, all_results, ran,
                   raised, calls, fw,
                 project, pack>>

\* the instance goes out of scope
FrameworkDrop ==
    /\ pc = "idle"
    /\ fw # "noinstance"
    /\ fw' = "noinstance"
    /\ fw_text' = "notread"
    /\ UNCHANGED <<fs, shared_state, pc, config, basedir, registry, idx, all_results, ran,
                   raised, calls,
                 project, pack>>

Next ==
    \/ AnalyzeCall
    \/ SkipIgnored
    \/ RunChecker
    \/ CrashChecker
    \/ Return
    \/ Finish
    \/ FrameworkNew
    \/ FrameworkRunCall
    \/ FrameworkText
    \/ FrameworkDrop

Spec == Init /\ [][Next]_vars

\* a caller calls analyze over a registry that has the metadata checker
AnalyzeCallMetadata ==
    /\ pc = "idle"
    /\ \E reg \in MetadataRegistries : \E cfg \in Configs(reg) : \E d \in Dirs :
           Analyze(cfg, d, reg)

NextMetadata ==
    \/ AnalyzeCallMetadata
    \/ SkipIgnored
    \/ RunChecker
    \/ CrashChecker
    \/ Return
    \/ Finish

\* the process when CHECKERS has the metadata checker
SpecMetadata == Init /\ [][NextMetadata]_vars

(* ------------------------------------------------------------------ *)
(* The pack command at work                                           *)
(* ------------------------------------------------------------------ *)

\* the variables of the linters, which the pack command leaves alone
lintvars == <<fs, shared_state, pc, config, basedir, registry, idx, all_results, ran,
              raised, calls, fw, fw_text>>

\* the message of get_paths_to_include's CommandError for a missing mandatory file
MissingMessage(n) ==
    CASE n = "bundle.yaml"   -> "CommandError: Missing mandatory file: bundle.yaml."
      [] n = "manifest.yaml" -> "CommandError: Missing mandatory file: manifest.yaml."
      [] n = "README.md"     -> "CommandError: Missing mandatory file: README.md."

\* the CommandError of run for -e/--entrypoint on the bundle path
EntryOptionError == "CommandError: The -e/--entry option is valid only when packing a charm"

\* the CommandError of run for -r/--requirement on the bundle path
RequirementOptionError == "CommandError: The -r/--requirement option is valid only when packing a charm"

\* a PackCommand is built with a config, in some project directory, and nothing ran
InitPack ==
    /\ fs = Trees
    /\ shared_state = EmptyState
    /\ pc = "idle"
    /\ config = NoConfig
    /\ basedir = 0
    /\ registry = <<>>
    /\ idx = 0
    /\ all_results = <<>>
    /\ ran = {}
    /\ raised = "none"
    /\ calls = 0
    /\ fw = "noinstance"
    /\ fw_text = "notread"
    /\ project \in Projects
    /\ \E cfg \in PackConfigs :
           pack = [NoCommand EXCEPT !.pc = "start", !.config = cfg, !.started = project]

\* PackCommandRun, had it let the charm options through on the bundle path
PackCommandRunNoOptionCheck(parsed_args) ==
    /\ pack.pc = "start"
    /\ IF pack.config.type = "charm" \/ ~pack.config.config_provided
       THEN pack' = [pack EXCEPT !.pc = "charm", !.parsed_args = parsed_args,
                                 !.called = @ \o <<"run", "_pack_charm">>]
       ELSE pack' = [pack EXCEPT !.pc = "bundle", !.parsed_args = parsed_args,
                                 !.called = @ \o <<"run", "_pack_bundle">>]
    /\ UNCHANGED <<project, lintvars>>

\* PackCommand.run(parsed_args): the charm path, the refusal of a charm option, or
\* the entry into _pack_bundle
PackCommandRun(parsed_args) ==
    /\ pack.pc = "start"
    /\ IF pack.config.type = "charm" \/ ~pack.config.config_provided
       THEN pack' = [pack EXCEPT !.pc = "charm", !.parsed_args = parsed_args,
                                 !.called = @ \o <<"run", "_pack_charm">>]
       ELSE IF parsed_args.entrypoint # None
       THEN pack' = [pack EXCEPT !.pc = "raised", !.parsed_args = parsed_args,
                                 !.called = Append(@, "run"),
                                 !.raised = EntryOptionError]
       ELSE IF parsed_args.requirement # None
       THEN pack' = [pack EXCEPT !.pc = "raised", !.parsed_args = parsed_args,
                                 !.called = Append(@, "run"),
                                 !.raised = RequirementOptionError]
       ELSE pack' = [pack EXCEPT !.pc = "bundle", !.parsed_args = parsed_args,
                                 !.called = @ \o <<"run", "_pack_bundle">>]
    /\ UNCHANGED <<project, lintvars>>

\* _pack_bundle called on the command itself, whatever the type of its config
PackBundleCall ==
    /\ pack.pc = "start"
    /\ pack' = [pack EXCEPT !.pc = "bundle", !.called = Append(@, "_pack_bundle")]
    /\ UNCHANGED <<project, lintvars>>

\* the CommandError of _pack_bundle for a bundle.yaml that load_yaml cannot give
MissingBundleError == "CommandError: Missing or invalid main bundle file"

\* the CommandError of _pack_bundle for a bundle.yaml without a name
MissingNameError == "CommandError: Invalid bundle config; missing a 'name' field"

\* the CommandError of _pack_bundle for a config whose type is not bundle
BadTypeError == "CommandError: Bad config: 'type' field in charmcraft.yaml must be 'bundle'"

\* PackBundleValidate, had the manifest been created before the validations
PackBundleValidateAfterManifest ==
    /\ pack.pc = "bundle"
    /\ project' = CreateManifestFile(project)
    /\ LET bundle_config == LoadYaml(project, "bundle.yaml")
           called        == Append(pack.called, "create_manifest")
       IN  IF bundle_config.none
           THEN pack' = [pack EXCEPT !.pc = "raised", !.called = called,
                                     !.raised = MissingBundleError]
           ELSE IF bundle_config.name \in {Absent, ""}
           THEN pack' = [pack EXCEPT !.pc = "raised", !.called = called,
                                     !.raised = MissingNameError]
           ELSE IF pack.config.type # "bundle"
           THEN pack' = [pack EXCEPT !.pc = "raised", !.called = called,
                                     !.raised = BadTypeError]
           ELSE pack' = [pack EXCEPT !.pc = "try", !.called = called]
    /\ UNCHANGED lintvars

\* _pack_bundle up to its third validation: bundle.yaml, its name, the config type
PackBundleValidate ==
    /\ pack.pc = "bundle"
    /\ LET bundle_config == LoadYaml(project, "bundle.yaml")
       IN  IF bundle_config.none
           THEN pack' = [pack EXCEPT !.pc = "raised", !.raised = MissingBundleError]
           ELSE IF bundle_config.name \in {Absent, ""}
           THEN pack' = [pack EXCEPT !.pc = "raised", !.raised = MissingNameError]
           ELSE IF pack.config.type # "bundle"
           THEN pack' = [pack EXCEPT !.pc = "raised", !.raised = BadTypeError]
           ELSE pack' = [pack EXCEPT !.pc = "validated"]
    /\ UNCHANGED <<project, lintvars>>

\* _pack_bundle creates the manifest and enters its try block
PackBundleCreateManifest ==
    /\ pack.pc = "validated"
    /\ project' = CreateManifestFile(project)
    /\ pack' = [pack EXCEPT !.pc = "try", !.called = Append(@, "create_manifest")]
    /\ UNCHANGED lintvars

\* first statement of the try block: paths = get_paths_to_include(self.config)
PackBundleGetPaths ==
    /\ pack.pc = "try"
    /\ LET got == GetPathsToInclude(pack.config, project)
       IN  IF got.exc = "none"
           THEN pack' = [pack EXCEPT !.pc = "zip", !.paths = got.paths,
                                     !.called = Append(@, "get_paths_to_include")]
           ELSE \E n \in got.missing :
                    pack' = [pack EXCEPT !.pc = "finally", !.pending = MissingMessage(n),
                                         !.called = Append(@, "get_paths_to_include")]
    /\ UNCHANGED <<project, lintvars>>

\* rest of the try block: build_zip(zipname, project.dirpath, paths)
PackBundleBuildZip ==
    /\ pack.pc = "zip"
    /\ LET built == BuildZip(project, pack.paths)
       IN  /\ project' = built.project
           /\ pack' = [pack EXCEPT !.pc = "finally", !.zipped = built.zipped,
                                   !.pending = built.exc,
                                   !.called = Append(@, "build_zip")]
    /\ UNCHANGED lintvars

\* PackBundleFinally, had the unlink come after the try block and not in a finally
PackBundleFinallyOnSuccessOnly ==
    /\ pack.pc = "finally"
    /\ project' = IF pack.pending = "none" THEN Unlink(project) ELSE project
    /\ pack' = [pack EXCEPT !.pc = IF pack.pending = "none" THEN "log" ELSE "raised",
                            !.raised = pack.pending,
                            !.pending = "none",
                            !.called = IF pack.pending = "none" THEN Append(@, "unlink") ELSE @]
    /\ UNCHANGED lintvars

\* the finally block: the manifest is unlinked, then a pending exception goes on
PackBundleFinally ==
    /\ pack.pc = "finally"
    /\ project' = Unlink(project)
    /\ pack' = [pack EXCEPT !.pc = IF pack.pending = "none" THEN "log" ELSE "raised",
                            !.raised = pack.pending,
                            !.pending = "none",
                            !.called = Append(@, "unlink")]
    /\ UNCHANGED lintvars

\* logger.info("Created '%s'.", zipname), and _pack_bundle returns
PackBundleLog ==
    /\ pack.pc = "log"
    /\ pack' = [pack EXCEPT !.pc = "done", !.logged = Append(@, "Created")]
    /\ UNCHANGED <<project, lintvars>>

\* get_paths_to_include(config) called on its own
GetPathsToIncludeCall ==
    /\ pack.pc = "start"
    /\ LET got == GetPathsToInclude(pack.config, project)
       IN  IF got.exc = "none"
           THEN pack' = [pack EXCEPT !.pc = "done", !.paths = got.paths,
                                     !.called = Append(@, "get_paths_to_include")]
           ELSE \E n \in got.missing :
                    pack' = [pack EXCEPT !.pc = "raised", !.raised = MissingMessage(n),
                                         !.called = Append(@, "get_paths_to_include")]
    /\ UNCHANGED <<project, lintvars>>

\* the command line gives the options
PackCommandRunCall == \E parsed_args \in ParsedArgs : PackCommandRun(parsed_args)

NextPack ==
    \/ PackCommandRunCall
    \/ PackBundleCall
    \/ PackBundleValidate
    \/ PackBundleCreateManifest
    \/ PackBundleGetPaths
    \/ PackBundleBuildZip
    \/ PackBundleFinally
    \/ PackBundleLog
    \/ GetPathsToIncludeCall

SpecPack == InitPack /\ [][NextPack]_vars

TypeOK ==
    /\ pc \in {"idle", "loop", "returned", "raised"}
    /\ calls \in 0..MaxCalls
    /\ basedir \in Dirs \cup {0}
    /\ fs = Trees
    /\ DOMAIN shared_state = CheckerNames

(* ------------------------------------------------------------------ *)
(* Properties                                                         *)
(* ------------------------------------------------------------------ *)

\* position i of the running call's registry is ignored by the configuration:
\* an attribute checker named in ignore.attributes, a linter named in ignore.linters
IgnoredByConfig(i) ==
    \/ CheckTypeOf(registry[i]) = "attribute" /\ NameOf(registry[i]) \in config.attributes
    \/ /\ CheckTypeOf(registry[i]) \in {"warning", "error"}
       /\ NameOf(registry[i]) \in config.linters

\* the rows of all_results that carry the name of registry position i
RowsOf(i) == {k \in 1..Len(all_results) : all_results[k].name = NameOf(registry[i])}

\* C1: analyze returns exactly len(registry) results and the i-th result carries
\* the name of the i-th checker of the registry
C1_OneRowPerChecker ==
    pc = "returned" =>
        /\ Len(all_results) = Len(registry)
        /\ \A i \in 1..Len(registry) : all_results[i].name = NameOf(registry[i])

\* C2: a checker ignored through the ignore list of its category still has a row in
\* the list analyze returns, with its name, its check_type and result IGNORED
C2_IgnoredStillReported ==
    pc = "returned" =>
        \A i \in 1..Len(registry) :
            IgnoredByConfig(i) =>
                \E k \in RowsOf(i) :
                    /\ all_results[k].check_type = CheckTypeOf(registry[i])
                    /\ all_results[k].result = IGNORED

\* C3: once the run of a checker has raised inside analyze, analyze reports a row for
\* that checker with result UNKNOWN (attribute) or FATAL (warning, error)
C3_CrashFallback ==
    raised # "none" =>
        \E k \in RowsOf(idx) :
            all_results[k].result =
                IF CheckTypeOf(registry[idx]) = "attribute" THEN UNKNOWN ELSE FATAL

\* C4: no exception of a checker's run leaves analyze: a call in which a run raised
\* goes on over the later positions and never ends by raising
C4_NoExceptionEscapes ==
    /\ pc # "raised"
    /\ pc = "returned" => \A i \in 1..Len(registry) : i \in ran \/ IgnoredByConfig(i)

\* C5: when an analyze call starts, shared_state is empty
C5_FreshStateAtStart ==
    (pc = "loop" /\ idx = 1) => shared_state = EmptyState

\* what the running call gave or is giving its caller
Outcome == [raised |-> raised, results |-> IF pc = "raised" THEN <<>> ELSE all_results]

\* C6: what an analyze call gives its caller depends on its configuration, target and
\* registry only: it is what the same call gives in a process that made no call before
C6_IndependentOfEarlierCalls ==
    pc \in {"returned", "raised"} =>
        Outcome = AnalyzeFrom(EmptyState, config, basedir, registry, 1, <<>>)

\* C7: during an analyze call, the run of a checker ignored by configuration is never
\* invoked and no step changes the shared_state entry under its name
C7_IgnoredNotRunNorWritten ==
    [][pc = "loop" =>
          \A i \in 1..Len(registry) :
              IgnoredByConfig(i) =>
                  /\ i \notin ran'
                  /\ shared_state'[NameOf(registry[i])] = shared_state[NameOf(registry[i])]]_vars

C7_Witness ==
    /\ pc = "returned"
    /\ ran # {}
    /\ \E i \in 1..Len(registry) :
           /\ IgnoredByConfig(i)
           /\ i \notin ran
           /\ shared_state[NameOf(registry[i])].result = Absent

\* the description that goes with an outcome of Framework
Description(o) ==
    CASE o = "operator" -> "The charm is based on the Operator Framework."
      [] o = "reactive" -> "The charm is based on the Reactive Framework."
      [] o = "unknown"  -> "The charm is not based on any known Framework."
      [] OTHER          -> "no description"

\* C8: reading text on a Framework instance raises RuntimeError while run has not
\* executed, and gives the description of the outcome once run has returned it;
\* the outcome an instance holds is one that its run returned
C8_TextTwoStates ==
    [][/\ (fw # "noinstance" /\ fw_text' # "notread" /\ fw' = fw) =>
              fw_text' = IF fw = Absent THEN "RuntimeError" ELSE Description(fw)
       /\ (fw # "noinstance" /\ fw' # "noinstance" /\ fw' # fw) =>
              /\ fw' \in {"operator", "reactive", "unknown"}
              /\ \E d \in Dirs : FrameworkRun(shared_state, d) = Returned(fw', shared_state)
       /\ fw' # "noinstance" /\ fw = "noinstance" => fw' = Absent]_vars

C8_Witness ==
    /\ fw \in {"operator", "reactive", "unknown"}
    /\ fw_text = Description(fw)

\* C9: Framework.run gives operator whenever operator detection succeeds, reactive
\* when operator detection fails and reactive detection succeeds, unknown exactly
\* when both fail
C9_FirstMatchWins ==
    \A i \in ran :
        (registry[i] = "Framework" /\ pc # "raised") =>
            LET op == CheckOperator(shared_state, basedir)
                re == CheckReactive(shared_state, basedir)
            IN  \E k \in RowsOf(i) :
                    /\ op = "True" => all_results[k].result = "operator"
                    /\ (op = "False" /\ re = "True") => all_results[k].result = "reactive"
                    /\ all_results[k].result = "unknown" <=> (op = "False" /\ re = "False")

C9_Witness ==
    /\ pc = "returned"
    /\ \E i \in ran : registry[i] = "Framework" /\
           \E k \in RowsOf(i) : all_results[k].result = "operator"
    /\ CheckReactive(shared_state, basedir) = "True"

\* the three conditions of operator detection, on the target of the running call
OperatorConditions ==
    LET entrypoint == shared_state["language"].entrypoint
    IN  /\ shared_state["language"].result = "python"
        /\ Tree(basedir).venvops = "dir"
        /\ FileAt(entrypoint).kind = "file"
        /\ FileAt(entrypoint).r
        /\ FileAt(entrypoint).parses
        /\ \E n \in 1..Len(FileAt(entrypoint).imports) :
               /\ ~FileAt(entrypoint).imports[n].none
               /\ FileAt(entrypoint).imports[n].module[1] = "ops"

\* C10: in a call that has run Framework, operator detection returns true if and
\* only if the recorded Language result is python, venv/ops is a directory and the
\* recorded entry point parses and has an import whose first component is ops
C10_OperatorIffConditions ==
    \A i \in ran :
        registry[i] = "Framework" =>
            (CheckOperator(shared_state, basedir) = "True" <=> OperatorConditions)

\* the conditions of reactive detection as the metadata checker's entry gives them:
\* a string name N recorded in shared_state, a wheelhouse entry of the reactive
\* library, and reactive/N.py importing charms.reactive
ReactiveConditions ==
    LET name == shared_state["metadata"].name
        file == FileAt(Join(basedir, ReactiveFile(name)))
    IN  /\ name \notin {Absent, None}
        /\ Tree(basedir).wheelhouse.exists
        /\ \E f \in Tree(basedir).wheelhouse.entries : StartsWithReactive(f)
        /\ file.kind = "file" /\ file.r /\ file.parses
        /\ \E n \in 1..Len(file.imports) :
               /\ ~file.imports[n].none
               /\ Len(file.imports[n].module) >= 2
               /\ file.imports[n].module[1] = "charms"
               /\ file.imports[n].module[2] = "reactive"

\* C11: in a call in which Framework's run has returned after operator detection
\* found nothing, reactive detection has returned true (the outcome is reactive)
\* whenever the metadata entry of shared_state holds a string name N, wheelhouse has
\* an entry starting with charms.reactive- and reactive/N.py imports charms.reactive
C11_ReactiveFromSharedName ==
    \A i \in ran :
        (/\ registry[i] = "Framework"
         /\ pc # "raised"
         /\ CheckOperator(shared_state, basedir) = "False"
         /\ ReactiveConditions) =>
            /\ CheckReactive(shared_state, basedir) = "True"
            /\ \E k \in RowsOf(i) : all_results[k].result = "reactive"

\* the python conditions of Language on the target of the running call: dispatch
\* is text, has a non-blank line, and the last word of the last non-blank line
\* names a file with suffix .py that is executable
LanguageConditions ==
    LET dispatch == Tree(basedir).dispatch
        useful   == {n \in 1..Len(dispatch.lines) : dispatch.lines[n].text # "blank"}
    IN  /\ dispatch.kind = "text"
        /\ useful # {}
        /\ LET last == CHOOSE n \in useful : \A m \in useful : m <= n
               line == dispatch.lines[last]
           IN  /\ line.text = "words"
               /\ Suffix(Join(basedir, line.words[Len(line.words)])) = ".py"
               /\ AccessX(Join(basedir, line.words[Len(line.words)]))

\* C12: Language.run returns python if and only if the python conditions hold,
\* and unknown in every other case
C12_LanguagePythonIff ==
    \A i \in ran :
        registry[i] = "Language" =>
            \E k \in RowsOf(i) :
                all_results[k].result = IF LanguageConditions THEN "python" ELSE "unknown"

\* C13: when dispatch is missing or is not text, the iteration of Language raises
\* nothing, reports unknown, and leaves in shared_state only the result analyze writes
C13_NoDispatchIsUnknown ==
    [][(/\ pc = "loop"
        /\ idx <= Len(registry)
        /\ registry[idx] = "Language"
        /\ ~IgnoredByConfig(idx)
        /\ Tree(basedir).dispatch.kind # "text") =>
           /\ pc' = "loop"
           /\ raised' = "none"
           /\ Len(all_results') = Len(all_results) + 1
           /\ all_results'[Len(all_results')].name = "language"
           /\ all_results'[Len(all_results')].result = "unknown"
           /\ shared_state' = [shared_state EXCEPT !["language"].result = "unknown"]]_vars

C13_Witness ==
    /\ pc = "returned"
    /\ Tree(basedir).dispatch.kind = "undecodable"
    /\ \E k \in 1..Len(all_results) :
           all_results[k].name = "language" /\ all_results[k].result = "unknown"
    /\ shared_state["language"].result = "unknown"

\* metadata.yaml of the target of the running call exists, parses, and has a string
\* name, a summary and a description
MetadataConditions ==
    /\ Tree(basedir).metafile = "yaml"
    /\ Tree(basedir).metaname # Absent
    /\ Tree(basedir).metasummary
    /\ Tree(basedir).metadescription

\* C14: once the metadata checker has run in a call, its row says ok exactly when
\* metadata.yaml exists, parses and has name, summary and description, and says
\* errors in every other case
C14_MetadataOkIff ==
    \A i \in ran :
        registry[i] = "JujuMetadata" =>
            \E k \in RowsOf(i) :
                all_results[k].result = IF MetadataConditions THEN "ok" ELSE "errors"

C14_Witness ==
    /\ \E i \in ran : registry[i] = "JujuMetadata"
    /\ Tree(basedir).metafile = "yaml"
    /\ Tree(basedir).metaname = "foobar"
    /\ Tree(basedir).metasummary
    /\ ~Tree(basedir).metadescription
    /\ \E k \in 1..Len(all_results) :
           all_results[k].name = "metadata" /\ all_results[k].result = "errors"

\* C15: once the metadata checker has run in a call, the name in its shared_state
\* entry is the name of metadata.yaml when a string name is there (whatever the
\* outcome), and None when the file is missing, corrupted or has no name: the name
\* an earlier run left is never kept
C15_NameRecordedEveryRun ==
    \A i \in ran :
        registry[i] = "JujuMetadata" =>
            shared_state["metadata"].name =
                IF Tree(basedir).metafile = "yaml" /\ Tree(basedir).metaname # Absent
                THEN Tree(basedir).metaname
                ELSE None

\* a second call in which the metadata checker found no name, while the framework
\* entry still holds the reactive outcome an earlier call reached with a name
C15_Witness ==
    /\ calls = 2
    /\ \E i \in ran : registry[i] = "JujuMetadata"
    /\ \A i \in ran : registry[i] # "Framework"
    /\ Tree(basedir).metafile = "missing"
    /\ shared_state["metadata"].name = None
    /\ shared_state["metadata"].result = "errors"
    /\ shared_state["framework"].result = "reactive"

\* C16: in the registry every checker whose shared_state entry another checker
\* reads precedes that reader: Language and the metadata checker both come before
\* Framework, and a call over CHECKERS that ignores nothing and returns reports
\* language and metadata before framework
C16_DependenciesPrecedeReaders ==
    (pc # "idle" /\ registry = CHECKERS) =>
        /\ \A j \in 1..Len(registry) :
               registry[j] = "Framework" =>
                   /\ \E i \in 1..(j - 1) : registry[i] = "Language"
                   /\ \E i \in 1..(j - 1) : registry[i] = "JujuMetadata"
        /\ (pc = "returned" /\ config = NoConfig) =>
               \E l, m, f \in 1..Len(all_results) :
                   /\ l < f /\ m < f
                   /\ all_results[l].name = "language"
                   /\ all_results[m].name = "metadata"
                   /\ all_results[f].name = "framework"

\* position i of the running call's registry holds a checker whose category is
\* none of attribute, warning, error
UnknownCategory(i) == CheckTypeOf(registry[i]) \notin {"attribute", "warning", "error"}

\* C17 as stated: a call over a registry with a checker of unknown category ends
\* with an error before any run: no checker runs, shared_state is not written,
\* and the call does not return a list
C17_UnknownCategoryFailsFast ==
    (pc # "idle" /\ \E i \in 1..Len(registry) : UnknownCategory(i)) =>
        /\ ran = {}
        /\ all_results = <<>>
        /\ pc # "returned"

\* C17 amended: analyze does not check categories. A checker of unknown category
\* is in neither ignore bucket: whatever the ignore lists hold, the iteration that
\* reaches it runs it, appends its row with its own check_type and the value its
\* run returned, and writes that value to shared_state
C17_UnknownCategoryRunsNormally ==
    [][(/\ pc = "loop"
        /\ idx <= Len(registry)
        /\ UnknownCategory(idx)
        /\ idx' # idx) =>
           /\ ran' = ran \cup {idx}
           /\ raised' = "none"
           /\ all_results' = Append(all_results,
                                    [name |-> NameOf(registry[idx]),
                                     result |-> "result1",
                                     url |-> "url",
                                     check_type |-> "type1",
                                     text |-> "text"])
           /\ shared_state'[NameOf(registry[idx])].result = "result1"]_vars

C17_Witness ==
    /\ pc = "returned"
    /\ "name4" \in config.linters
    /\ \E i \in ran : UnknownCategory(i)
    /\ \E k \in 1..Len(all_results) :
           /\ all_results[k].name = "name4"
           /\ all_results[k].check_type = "type1"
           /\ all_results[k].result = "result1"
    /\ shared_state["name4"].result = "result1"

\* the target of the running call has a valid dispatch whose executable .py entry
\* point imports nothing of ops, no venv/ops directory and no wheelhouse directory
PythonWithoutOps ==
    LET dispatch == Tree(basedir).dispatch
        last     == LastUseful(dispatch.lines, Len(dispatch.lines))
    IN  /\ LanguageConditions
        /\ Tree(basedir).venvops = "none"
        /\ ~Tree(basedir).wheelhouse.exists
        /\ LET words == dispatch.lines[last].words
               file  == FileAt(Join(basedir, words[Len(words)]))
           IN  \A n \in 1..Len(file.imports) :
                   file.imports[n].none \/ file.imports[n].module[1] # "ops"

C19_RowIsCheckersOwn ==
    [][(pc = "loop" /\ ran' # ran /\ raised' = "none") =>
           LET c   == registry[idx]
               out == RunOf(c, shared_state, basedir)
               row == all_results'[Len(all_results')]
           IN  /\ out.exc = "none"
               /\ basedir' = basedir
               /\ Len(all_results') = Len(all_results) + 1
               /\ SubSeq(all_results', 1, Len(all_results)) = all_results
               /\ row.name = NameOf(c)
               /\ row.check_type = CheckTypeOf(c)
               /\ row.url = UrlOf(c)
               /\ row.result = out.value
               /\ row.text =
                      IF c = "Framework" THEN ResultTexts(out.value)
                      ELSE IF c = "Language" THEN "The charm is written with Python."
                      ELSE "text"]_vars

\* a returned call whose rows are those of Language, an operator Framework and a
\* checker of the tests
C19_Witness ==
    /\ pc = "returned"
    /\ Len(all_results) = 3
    /\ all_results[1] = [name |-> "language", check_type |-> "attribute",
                         url |-> UrlOf("Language"), result |-> "python",
                         text |-> "The charm is written with Python."]
    /\ all_results[2] = [name |-> "framework", check_type |-> "attribute",
                         url |-> UrlOf("Framework"), result |-> "operator",
                         text |-> "The charm is based on the Operator Framework."]
    /\ all_results[3].name \in {"name2", "name4"}

\* C20: when Framework has run in a call in which Language did not run before it
\* (Language is ignored), operator detection found no match without raising and
\* Framework completed with an outcome: nothing was raised and its row says
\* reactive or unknown
C20_MissingLanguageIsNoInformation ==
    \A f \in ran :
        (/\ registry[f] = "Framework"
         /\ \A l \in 1..(f - 1) : registry[l] = "Language" => l \notin ran) =>
            /\ raised = "none"
            /\ \E k \in RowsOf(f) : all_results[k].result \in {"reactive", UNKNOWN}

\* position i of the running call's registry has been processed by the loop
Processed(i) == i \in 1..Len(registry) /\ (i < idx \/ i \in ran)

\* C21: once analyze has processed a checker that is not ignored, by a normal return
\* or by a crash, the result in its shared_state entry is the outcome of its row, and
\* what its run stored beside it (the entry point of Language) is still there
C21_ResultMatchesRow ==
    \A i \in 1..Len(registry) :
        (Processed(i) /\ ~IgnoredByConfig(i)) =>
            /\ \E k \in RowsOf(i) :
                   all_results[k].result = shared_state[NameOf(registry[i])].result
            /\ (registry[i] = "Language" /\ shared_state["language"].result = "python") =>
                   shared_state["language"].entrypoint # NoPath

\* the last word of the last non-blank line of dispatch in the target of the running
\* call, or the empty string when dispatch has no non-blank line
LastToken ==
    LET lines  == Tree(basedir).dispatch.lines
        useful == {n \in 1..Len(lines) : lines[n].text # "blank"}
    IN  IF useful = {} THEN ""
        ELSE LET line == lines[CHOOSE n \in useful : \A m \in useful : m <= n]
             IN  line.words[Len(line.words)]

\* C22: whenever the loop is about to run Language, a run that returns python changes
\* shared_state only by storing basedir joined with the last token of dispatch as the
\* entry point of language, and a run that returns unknown leaves shared_state as it is
C22_EntrypointIffPython ==
    (/\ pc = "loop"
     /\ idx <= Len(registry)
     /\ registry[idx] = "Language") =>
        LET out == LanguageRun(shared_state, basedir)
        IN  /\ (out.exc = "none" /\ out.value = "python") =>
                   out.state = [shared_state EXCEPT
                                   !["language"].entrypoint = Join(basedir, LastToken)]
            /\ (out.exc = "none" /\ out.value = UNKNOWN) => out.state = shared_state
            /\ out.exc = "none" => out.value \in {"python", UNKNOWN}

\* a second call in which Language returned unknown on a directory without a Python
\* entry point, the entry point of the first call's directory still being recorded
C22_Witness ==
    /\ calls = 2
    /\ \E i \in ran : registry[i] = "Language"
    /\ shared_state["language"].result = UNKNOWN
    /\ shared_state["language"].entrypoint # NoPath
    /\ shared_state["language"].entrypoint.dir # basedir

\* C23: once Language has run on a target whose dispatch is text without any
\* non-blank line, its row says unknown, whatever the name of the target directory
C23_EmptyDispatchIsUnknown ==
    \A i \in ran :
        (/\ registry[i] = "Language"
         /\ Tree(basedir).dispatch.kind = "text"
         /\ \A n \in 1..Len(Tree(basedir).dispatch.lines) :
                Tree(basedir).dispatch.lines[n].text = "blank") =>
            \E k \in RowsOf(i) : all_results[k].result = UNKNOWN

\* C24: in a call in which Framework has run after operator detection found nothing,
\* reactive detection has returned false without raising (the outcome is unknown)
\* whenever one of its conditions is missing: no string name recorded in the metadata
\* entry, no wheelhouse entry of the reactive library, or reactive/<name>.py missing,
\* unreadable, not parsable, or without an import of charms.reactive
C24_ReactiveFalseWhenConditionMissing ==
    \A i \in ran :
        (/\ registry[i] = "Framework"
         /\ CheckOperator(shared_state, basedir) = "False"
         /\ ~ReactiveConditions) =>
            /\ raised = "none"
            /\ CheckReactive(shared_state, basedir) = "False"
            /\ \E k \in RowsOf(i) : all_results[k].result = UNKNOWN

C26_EachCheckerRunInOrder ==
    /\ pc \in {"returned", "raised"} =>
           \A i \in 1..Len(registry) : ~IgnoredByConfig(i) => i \in ran
    /\ \A i \in ran :
           \A j \in 1..(i - 1) :
               ~IgnoredByConfig(j) =>
                   /\ j \in ran
                   /\ \E k \in RowsOf(j) :
                          all_results[k].result = shared_state[NameOf(registry[j])].result

\* C27: when analyze has processed Framework on the ignore path or on the crash path,
\* Framework's row is in the list all the same and the RuntimeError of reading text
\* before run has not been raised
C27_RowOnCrashAndIgnorePaths ==
    \A i \in 1..Len(registry) :
        (/\ registry[i] = "Framework"
         /\ Processed(i)
         /\ (IgnoredByConfig(i) \/ (idx = i /\ raised # "none"))) =>
            /\ raised # "RuntimeError"
            /\ RowsOf(i) # {}

\* C28: the names of the checkers of CHECKERS, and of any registry analyze runs
\* over, are pairwise distinct, so no two positions write the same shared_state key
\* and the name of each row identifies one position of the registry
C28_NamesDistinct ==
    /\ \A i, j \in 1..Len(CHECKERS) :
           i # j => NameOf(CHECKERS[i]) # NameOf(CHECKERS[j])
    /\ \A i, j \in 1..Len(registry) :
           i # j => NameOf(registry[i]) # NameOf(registry[j])
    /\ \A k \in 1..Len(all_results) :
           Cardinality({i \in 1..Len(registry) :
                           NameOf(registry[i]) = all_results[k].name}) = 1

\* a returned call over CHECKERS with one row and one shared_state entry per checker
C28_Witness ==
    /\ pc = "returned"
    /\ registry = CHECKERS
    /\ Len(all_results) = 2
    /\ all_results[1].name = "language"
    /\ all_results[2].name = "framework"
    /\ shared_state["language"].result = all_results[1].result
    /\ shared_state["framework"].result = all_results[2].result

\* C29: no step of analyze and no run of a checker inside it creates, writes, deletes
\* or changes the mode of anything under a target directory: the file trees are at
\* every moment the ones the process started with
C29_TreeUnchanged == fs = Trees

\* a returned call in which Language and Framework have read dispatch, the entry
\* point and venv/ops of an operator charm, whose tree is as it was
C29_Witness ==
    /\ pc = "returned"
    /\ registry = CHECKERS
    /\ ran = {1, 2}
    /\ all_results[1].result = "python"
    /\ all_results[2].result = "operator"
    /\ fs[basedir] = Trees[basedir]

\* C30: once Language has run on a target whose dispatch is readable text, whatever
\* its lines hold, the run has raised nothing and its row says python or unknown
C30_LanguageNeverRaises ==
    \A i \in ran :
        (registry[i] = "Language" /\ Tree(basedir).dispatch.kind = "text") =>
            /\ ~(idx = i /\ raised # "none")
            /\ \E k \in RowsOf(i) : all_results[k].result \in {"python", UNKNOWN}

\* the file reactive/<name>.py that reactive detection reads in the target of the
\* running call, the name being the one parse_metadata_yaml gives
ReactiveSource == FileAt(Join(basedir, ReactiveFile(ParseMetadataName(basedir))))

\* C31: when Framework has run and its reactive detection has read a file with an
\* import of the single component charms, nothing was raised for it: the import
\* counted as a non-match, the later imports were examined and Framework has its row
C31_BareCharmsIsNoMatch ==
    \A i \in ran :
        (/\ registry[i] = "Framework"
         /\ CheckOperator(shared_state, basedir) = "False"
         /\ ParseMetadataName(basedir) # Absent
         /\ \E f \in Tree(basedir).wheelhouse.entries : StartsWithReactive(f)
         /\ \E n \in 1..Len(ReactiveSource.imports) :
                /\ ~ReactiveSource.imports[n].none
                /\ ReactiveSource.imports[n].module = <<"charms">>) =>
            /\ raised # "IndexError"
            /\ \E k \in RowsOf(i) : all_results[k].result \in {"reactive", UNKNOWN}

\* C32: no run of Framework ends with the AttributeError of import extraction: an
\* entry point that is valid Python, also one with a relative import that names no
\* module, has its imports read without failure
C32_GetImportsNeverRaises ==
    \A i \in ran :
        (registry[i] = "Framework" /\ idx = i) => raised # "AttributeError"

\* C33: whenever the language entry of shared_state says python, its entry point is
\* there too, so the only KeyError of operator detection is the one of a language
\* entry without result, never the one of a missing entry point
C33_PythonHasEntrypoint ==
    /\ shared_state["language"].result = "python" =>
           shared_state["language"].entrypoint # NoPath
    /\ raised = "KeyError" => shared_state["language"].result = Absent

\* a second call that ignores Language, in which Framework has run on the python
\* result and the entry point an earlier call recorded
C33_Witness ==
    /\ calls = 2
    /\ pc = "returned"
    /\ "language" \in config.attributes
    /\ \E i \in ran : registry[i] = "Framework"
    /\ shared_state["language"].result = "python"
    /\ shared_state["language"].entrypoint # NoPath
    /\ shared_state["language"].entrypoint.dir # basedir


\* whether the first call made on the command was run
RunWasCalled == Len(pack.called) > 0 /\ pack.called[1] = "run"

\* what run went on to call, Absent if nothing
RunWentTo == IF Len(pack.called) >= 2 THEN pack.called[2] ELSE Absent

\* C34: once run was called, it went to _pack_charm exactly when the type is charm
\* or no configuration was provided, and to _pack_bundle exactly when neither holds
\* and no charm option was given; with a charm option on the bundle path it raised
\* the CommandError of an option, having called nothing and left the project
\* directory as it was (no manifest, no zip file)
C34_RunChoosesPath ==
    RunWasCalled =>
        LET charm  == pack.config.type = "charm" \/ ~pack.config.config_provided
            option == \/ pack.parsed_args.entrypoint # None
                      \/ pack.parsed_args.requirement # None
        IN  /\ charm <=> (RunWentTo = "_pack_charm")
            /\ (~charm /\ ~option) <=> (RunWentTo = "_pack_bundle")
            /\ (~charm /\ option) =>
                   /\ pack.pc = "raised"
                   /\ pack.raised \in {EntryOptionError, RequirementOptionError}
                   /\ pack.called = <<"run">>
                   /\ project = pack.started

\* run has refused -r/--requirement for a bundle whose directory would have packed
C34_Witness ==
    /\ pack.pc = "raised"
    /\ pack.called = <<"run">>
    /\ pack.config.type = "bundle"
    /\ pack.parsed_args.entrypoint = None
    /\ pack.parsed_args.requirement # None
    /\ pack.raised = RequirementOptionError
    /\ project.bundle_yaml = "named"
    /\ Exists(project, "README.md")


\* whether a call was made by the command
WasCalled(f) == \E k \in 1..Len(pack.called) : pack.called[k] = f

\* whether some call of f was made before some call of g
CalledBefore(f, g) ==
    \E j, k \in 1..Len(pack.called) : j < k /\ pack.called[j] = f /\ pack.called[k] = g

\* the errors that the try block of _pack_bundle can end with
TryBlockErrors == {MissingMessage(n) : n \in MANDATORY_FILES} \cup {"IsADirectoryError"}

\* C35: when _pack_bundle has ended after creating the manifest, manifest.yaml is
\* gone from the project directory: on success the zip was built before the unlink
\* and Created was logged; on failure the error of collecting the paths or of
\* building the zip is the one raised, and Created was not logged
C35_ManifestRemovedAtEnd ==
    (WasCalled("create_manifest") /\ pack.pc \in {"log", "done", "raised"}) =>
        /\ ~Exists(project, "manifest.yaml")
        /\ CalledBefore("create_manifest", "unlink")
        /\ pack.pc = "done" =>
               /\ CalledBefore("build_zip", "unlink")
               /\ IsFile(project, ZipName)
               /\ pack.logged = <<"Created">>
        /\ pack.pc = "raised" =>
               /\ pack.raised \in TryBlockErrors
               /\ pack.logged = <<>>
               /\ (pack.raised = "IsADirectoryError") <=> WasCalled("build_zip")

\* build_zip has failed on a directory in the place of the zip file, and the
\* manifest written over an older manifest.yaml is gone when the error is out
C35_Witness ==
    /\ pack.pc = "raised"
    /\ pack.raised = "IsADirectoryError"
    /\ WasCalled("create_manifest")
    /\ WasCalled("build_zip")
    /\ IsFile(pack.started, "manifest.yaml")
    /\ ~Exists(project, "manifest.yaml")
    /\ pack.logged = <<>>


\* the validation of _pack_bundle that a project and a config fail first, by the
\* order bundle.yaml, name, type; "none" when they pass all three
FirstFailure ==
    LET bundle_config == LoadYaml(pack.started, "bundle.yaml")
    IN  IF bundle_config.none THEN MissingBundleError
        ELSE IF bundle_config.name \in {Absent, ""} THEN MissingNameError
        ELSE IF pack.config.type # "bundle" THEN BadTypeError
        ELSE "none"

\* C36: when _pack_bundle has been entered on a project that fails a validation, the
\* error raised is the one of the first validation failed (bundle.yaml, then name,
\* then type), neither create_manifest nor build_zip is ever called, and the
\* project directory stays as it was; the manifest is created only when all pass
C36_ValidationsBeforeEffects ==
    WasCalled("_pack_bundle") =>
        /\ FirstFailure # "none" =>
               /\ ~WasCalled("create_manifest")
               /\ ~WasCalled("build_zip")
               /\ project = pack.started
               /\ pack.pc \in {"bundle", "raised"}
               /\ pack.pc = "raised" => pack.raised = FirstFailure
        /\ WasCalled("create_manifest") => FirstFailure = "none"
        /\ pack.raised \in {MissingBundleError, MissingNameError, BadTypeError} =>
               /\ pack.raised = FirstFailure
               /\ project = pack.started

\* _pack_bundle has refused a config of type charm, for a named bundle with a
\* README.md, after the two validations of bundle.yaml passed
C36_Witness ==
    /\ pack.pc = "raised"
    /\ pack.raised = BadTypeError
    /\ pack.called = <<"_pack_bundle">>
    /\ pack.config.type = "charm"
    /\ project.bundle_yaml = "named"
    /\ Exists(project, "README.md")
    /\ project = pack.started


\* the project directory as get_paths_to_include found it: as the command found it,
\* with the manifest when _pack_bundle created one before the call
PathsProject ==
    IF WasCalled("create_manifest") THEN CreateManifestFile(pack.started) ELSE pack.started

\* the regular files of a directory that at least one spec of the bundle part matches
Primed(proj) ==
    IF pack.config.parts.has_bundle
    THEN {n \in ProjectNames :
              /\ proj.entries[n] = "file"
              /\ \E k \in 1..Len(pack.config.parts.prime) :
                     Matches(pack.config.parts.prime[k], n)}
    ELSE {}

\* C37: once get_paths_to_include was called, it raised the CommandError of a missing
\* mandatory file if one of bundle.yaml, manifest.yaml, README.md was not in the
\* directory; otherwise the list it returned holds the mandatory files and the
\* regular files matched by a prime spec, nothing else, each once, in sorted order
C37_PathsMandatoryAndPrimed ==
    WasCalled("get_paths_to_include") =>
        LET proj    == PathsProject
            missing == {n \in MANDATORY_FILES : proj.entries[n] = "none"}
        IN  /\ missing # {} =>
                   /\ pack.paths = <<>>
                   /\ ~WasCalled("build_zip")
                   /\ \E n \in missing : MissingMessage(n) \in {pack.pending, pack.raised}
            /\ missing = {} =>
                   /\ pack.raised \notin {MissingMessage(n) : n \in MANDATORY_FILES}
                   /\ Elements(pack.paths) = MANDATORY_FILES \cup Primed(proj)
                   /\ \A j, k \in 1..Len(pack.paths) :
                          j < k => PathRank(pack.paths[j]) < PathRank(pack.paths[k])

\* get_paths_to_include has returned for a prime list that matches README.md twice
\* and the directory docs once: four paths, README.md once, docs left out
C37_Witness ==
    /\ pack.pc = "done"
    /\ pack.called = <<"get_paths_to_include">>
    /\ pack.config.parts.prime = <<"*", "README.md">>
    /\ project.entries["docs"] = "dir"
    /\ project.entries["foo.txt"] = "file"
    /\ pack.paths = <<"README.md", "bundle.yaml", "foo.txt", "manifest.yaml">>

====
